---------------------------- MODULE Spec2Model ----------------------------
(***************************************************************************)
(* Jua Smart solar advisor: the deterministic sizing / costing / financial *)
(* pipeline (utils/cost_calculator.py, utils/battery_calculator.py and     *)
(* calculate_quick_roi of app.py) and the session flow of app.py that      *)
(* feeds it.                                                               *)
(*                                                                         *)
(* Numbers.  The Python code computes in floating point; the model         *)
(* computes the same expressions exactly, on integers and on rationals     *)
(* [n, d], in the units named at each definition:                          *)
(*   consumption of the tariff engine   half kWh                           *)
(*   tariff rates                       cents (1/100 KSh) per kWh          *)
(*   system cost money                  a + b * kW cents (affine in the    *)
(*                                      requested size, see Money)         *)
(*   battery energy                     1/100 kWh                          *)
(*   irradiance                         1/10 kWh/m2/day                    *)
(***************************************************************************)
EXTENDS Integers, Sequences, FiniteSets, TLC

VARIABLES op, args, ret, pc, session_state

vars == <<op, args, ret, pc, session_state>>

(***************************************************************************)
(* Bounds of the input grids.                                              *)
(***************************************************************************)
MaxConsumption2 == 320      \* tariff engine: consumption 0 .. 160 kWh, in half kWh

MaxSizeSteps == 240         \* cost engine: sizes -50 W .. 12 kW, in steps of 50 W

MaxBackupSteps == 160       \* battery engine: backup 0 .. 25.6 kWh, in steps of 0.16 kWh

MaxKwSteps == 11            \* battery engine: system sizes 0.5 .. 5.5 kW, in steps of 0.5 kW

MaxMonthlySteps == 20       \* quick ROI: consumption 0 .. 500 kWh, in steps of 25 kWh

(***************************************************************************)
(* Exact arithmetic.                                                       *)
(***************************************************************************)
Abs(x) == IF x < 0 THEN -x ELSE x

Min(a, b) == IF a <= b THEN a ELSE b

Max(a, b) == IF a >= b THEN a ELSE b

RECURSIVE GCD(_, _)
GCD(a, b) == IF b = 0 THEN Abs(a) ELSE GCD(b, a % Abs(b))

\* math.ceil(a / b) and int(a / b) for b > 0 (int() truncates toward zero)
Ceil(a, b) == -((-a) \div b)

Trunc(a, b) == IF a >= 0 THEN a \div b ELSE -((-a) \div b)

\* the rational n / d in lowest terms, d > 0
Rat(n, d) ==
    LET g == GCD(n, d)
        s == IF d < 0 THEN -1 ELSE 1
    IN  [n |-> s * (n \div g), d |-> s * (d \div g)]

RInt(k) == [n |-> k, d |-> 1]

RMul(x, y) ==
    LET g1 == GCD(x.n, y.d)
        g2 == GCD(y.n, x.d)
    IN  IF x.n = 0 \/ y.n = 0 THEN RInt(0)
        ELSE [n |-> (x.n \div g1) * (y.n \div g2), d |-> (x.d \div g2) * (y.d \div g1)]

RLe(x, y) == x.n * y.d <= y.n * x.d

RLt(x, y) == x.n * y.d < y.n * x.d

RMin(x, y) == IF RLe(x, y) THEN x ELSE y

RMax(x, y) == IF RLe(y, x) THEN x ELSE y

RECURSIVE SumSeq(_)
SumSeq(s) == IF s = <<>> THEN 0 ELSE Head(s) + SumSeq(Tail(s))

(***************************************************************************)
(* Tariff engine: utils/cost_calculator.py, calculate_tariff_cost.         *)
(*                                                                         *)
(* tariff_data is None ([present |-> FALSE]) or a parsed JSON object:      *)
(* tiers is tariff_data["tariffs"]["domestic"] (<<>> when a key is         *)
(* missing), each tier [name, min_kwh, max_kwh, rate]; pass_through and    *)
(* vat_pct are the two .get() values with their defaults already applied.  *)
(***************************************************************************)
DefaultPassThrough == 550   \* 5.5 KSh/kWh

DefaultVatPct == 16         \* 0.16

\* the EPRA domestic bands the special cases of the loop are written for
EpraTiers ==
    << [name |-> "Lifeline",   min_kwh |-> 0,   max_kwh |-> 30,    rate |-> 1223],
       [name |-> "Ordinary 1", min_kwh |-> 31,  max_kwh |-> 100,   rate |-> 1645],
       [name |-> "Ordinary 2", min_kwh |-> 101, max_kwh |-> 15000, rate |-> 1908] >>

\* a contiguous table with other names, whose top band ends inside the grid
BlockTiers ==
    << [name |-> "Block A", min_kwh |-> 0,  max_kwh |-> 20, rate |-> 1000],
       [name |-> "Block B", min_kwh |-> 21, max_kwh |-> 50, rate |-> 1500] >>

\* a contiguous table whose lowest band starts above zero
RaisedTiers ==
    << [name |-> "Base",  min_kwh |-> 5,  max_kwh |-> 40,    rate |-> 1100],
       [name |-> "Upper", min_kwh |-> 41, max_kwh |-> 15000, rate |-> 1700] >>

TariffData(tiers) ==
    [present |-> TRUE, tiers |-> tiers,
     pass_through |-> DefaultPassThrough, vat_pct |-> DefaultVatPct]

NoTariffData ==
    [present |-> FALSE, tiers |-> <<>>,
     pass_through |-> DefaultPassThrough, vat_pct |-> DefaultVatPct]

TariffInputs == {NoTariffData, TariffData(<<>>), TariffData(EpraTiers),
                 TariffData(BlockTiers), TariffData(RaisedTiers)}

\* the quantity (half kWh) one pass of the loop body bills in `tier`
consumption_in_tier(tier, monthly2, remaining2) ==
    CASE tier.name = "Lifeline"   -> Min(monthly2, 2 * tier.max_kwh)
      [] tier.name = "Ordinary 1" -> Min(remaining2, 2 * (tier.max_kwh - 30))
      [] tier.name = "Ordinary 2" -> remaining2
      [] OTHER -> Min(remaining2, 2 * (tier.max_kwh - tier.min_kwh + 1))

\* TierStep without the `remaining_consumption > 0` guard
TierStep_without_remaining_guard(acc, tier, monthly2) ==
    IF acc.stopped THEN acc
    ELSE IF monthly2 >= 2 * tier.min_kwh
    THEN LET q == consumption_in_tier(tier, monthly2, acc.remaining)
         IN  [total_base_cost |-> acc.total_base_cost + q * tier.rate,
              remaining       |-> acc.remaining - q,
              tariff_category |-> tier.name,
              billed          |-> Append(acc.billed, q),
              stopped         |-> acc.remaining - q <= 0]
    ELSE [acc EXCEPT !.billed = Append(@, 0)]

\* one iteration of `for tier in tariffs`; billed records the quantity of
\* every tier visited (0 for a tier the two guards skip)
TierStep(acc, tier, monthly2) ==
    IF acc.stopped THEN acc
    ELSE IF monthly2 >= 2 * tier.min_kwh /\ acc.remaining > 0
    THEN LET q == consumption_in_tier(tier, monthly2, acc.remaining)
         IN  [total_base_cost |-> acc.total_base_cost + q * tier.rate,
              remaining       |-> acc.remaining - q,
              tariff_category |-> tier.name,
              billed          |-> Append(acc.billed, q),
              stopped         |-> acc.remaining - q <= 0]
    ELSE [acc EXCEPT !.billed = Append(@, 0)]

RECURSIVE WalkTiers(_, _, _)
WalkTiers(acc, tiers, monthly2) ==
    IF tiers = <<>> THEN acc
    ELSE WalkTiers(TierStep(acc, Head(tiers), monthly2), Tail(tiers), monthly2)

\* total_monthly_cost in 1/20000 KSh, effective_rate a rational in KSh/kWh
calculate_tariff_cost(monthly2, tariff_data) ==
    IF ~tariff_data.present
    THEN [total_monthly_cost |-> 0, effective_rate |-> RInt(0),
          tariff_category |-> "N/A", billed |-> <<>>, remaining |-> monthly2]
    ELSE LET walk == WalkTiers([total_base_cost |-> 0, remaining |-> monthly2,
                                tariff_category |-> "Unknown", billed |-> <<>>,
                                stopped |-> FALSE],
                               tariff_data.tiers, monthly2)
             total_pass_through_cost == monthly2 * tariff_data.pass_through
             subtotal == walk.total_base_cost + total_pass_through_cost
             total_vat == subtotal * tariff_data.vat_pct
             total == subtotal * 100 + total_vat
         IN  [total_monthly_cost |-> total,
              effective_rate |-> IF monthly2 > 0 THEN Rat(total, 10000 * monthly2)
                                 ELSE RInt(0),
              tariff_category |-> walk.tariff_category,
              billed |-> walk.billed,
              remaining |-> walk.remaining]

\* a table whose second tier has no "base_rate_ksh_per_kwh"
MalformedTiers ==
    << [name |-> "Lifeline",   min_kwh |-> 0,  max_kwh |-> 30, rate |-> 1223],
       [name |-> "Ordinary 1", min_kwh |-> 31, max_kwh |-> 100] >>

\* the loop reaches a tier it cannot read: tier["base_rate_ksh_per_kwh"] is
\* a KeyError at the head of the loop body
RECURSIVE WalkRaises(_, _, _)
WalkRaises(acc, tiers, monthly2) ==
    IF tiers = <<>> \/ acc.stopped THEN FALSE
    ELSE IF "rate" \notin DOMAIN Head(tiers) THEN TRUE
    ELSE WalkRaises(TierStep(acc, Head(tiers), monthly2), Tail(tiers), monthly2)

\* calculate_tariff_cost ends in an exception instead of a return
tariff_cost_raises(monthly2, tariff_data) ==
    /\ tariff_data.present
    /\ WalkRaises([total_base_cost |-> 0, remaining |-> monthly2,
                   tariff_category |-> "Unknown", billed |-> <<>>,
                   stopped |-> FALSE],
                  tariff_data.tiers, monthly2)

(***************************************************************************)
(* System cost engine: utils/cost_calculator.py, calculate_system_cost.    *)
(*                                                                         *)
(* system_size_kw is a rational.  Every amount the function computes is    *)
(* affine in it, a + b * system_size_kw, and is held as Money [a, b] in    *)
(* cents (the fallback inverter price, system_size_kw * 25000, is the only *)
(* source of a b part).  An equipment catalog is None/{} ([present |->     *)
(* FALSE]) or holds the list under "inverters", each entry [capacity_kw10  *)
(* (tenths of a kW), price_ksh]; assumptions is its truth value.           *)
(***************************************************************************)
Money(a, b) == [a |-> a, b |-> b]

MAdd(x, y) == [a |-> x.a + y.a, b |-> x.b + y.b]

\* x * pct / 100; every amount it is applied to is a whole number of KSh
MPct(x, pct) == [a |-> (x.a \div 100) * pct, b |-> (x.b \div 100) * pct]

panel_rate_per_watt == 35

standard_wattage == 450

FallbackInverterRate == 25000   \* KSh per kW

EquipmentVatPct == 16

MountingPerPanel == 3000

safety_cost == 3500 + 6000 + 4500

LaborBase == 5000

LaborPerKw == 2000

BosPct == 8

NoCatalog == [present |-> FALSE, inverters |-> <<>>]

\* a catalog with panels and no "inverters" list: the fallback pricing
PanelsOnlyCatalog == [present |-> TRUE, inverters |-> <<>>]

\* a catalog of the standard inverter sizes, in file order
StandardCatalog ==
    [present |-> TRUE,
     inverters |-> << [capacity_kw10 |-> 30,  price_ksh |-> 75000],
                      [capacity_kw10 |-> 15,  price_ksh |-> 45000],
                      [capacity_kw10 |-> 100, price_ksh |-> 220000],
                      [capacity_kw10 |-> 50,  price_ksh |-> 120000],
                      [capacity_kw10 |-> 80,  price_ksh |-> 180000] >>]

Catalogs == {NoCatalog, PanelsOnlyCatalog, StandardCatalog}

\* num_panels with int() in place of math.ceil
num_panels_truncated(system_size_kw) ==
    Max(1, Trunc(system_size_kw.n * 1000, system_size_kw.d * standard_wattage))

\* max(1, math.ceil(system_size_watts / standard_wattage))
num_panels(system_size_kw) ==
    Max(1, Ceil(system_size_kw.n * 1000, system_size_kw.d * standard_wattage))

\* [inv for inv in inverters if inv["capacity_kw"] >= system_size_kw]
suitable_inverters(system_size_kw, inverters) ==
    {i \in 1..Len(inverters) :
        inverters[i].capacity_kw10 * system_size_kw.d >= 10 * system_size_kw.n}

\* min(suitable_inverters, key=capacity_kw): the first of the smallest
chosen_inverter(system_size_kw, inverters) ==
    LET s == suitable_inverters(system_size_kw, inverters)
        i == CHOOSE i \in s : \A j \in s :
                \/ inverters[i].capacity_kw10 < inverters[j].capacity_kw10
                \/ inverters[i].capacity_kw10 = inverters[j].capacity_kw10 /\ i <= j
    IN  inverters[i]

\* the fallback's "round up inverter size", in tenths of a kW
fallback_inverter_capacity(system_size_kw) ==
    IF RLe(system_size_kw, Rat(15, 10)) THEN 15
    ELSE IF RLe(system_size_kw, RInt(3)) THEN 30
    ELSE IF RLe(system_size_kw, RInt(5)) THEN 50
    ELSE 10 * Ceil(system_size_kw.n, system_size_kw.d)

inverter_choice(system_size_kw, inverters) ==
    IF suitable_inverters(system_size_kw, inverters) # {}
    THEN LET inv == chosen_inverter(system_size_kw, inverters)
         IN  [base_cost |-> Money(inv.price_ksh * 100, 0),
              capacity_kw10 |-> inv.capacity_kw10]
    ELSE [base_cost |-> Money(0, FallbackInverterRate * 100),
          capacity_kw10 |-> fallback_inverter_capacity(system_size_kw)]

\* total_cost with the safety term left out of the sum
total_cost_without_safety(equipment_base_total, vat_amount, mounting_cost, electrical_labor, bos_cost, safety) ==
    MAdd(MAdd(MAdd(MAdd(equipment_base_total, vat_amount), mounting_cost),
              electrical_labor), bos_cost)

total_cost(equipment_base_total, vat_amount, mounting_cost, electrical_labor, bos_cost, safety) ==
    MAdd(MAdd(MAdd(MAdd(MAdd(equipment_base_total, vat_amount), mounting_cost),
                   electrical_labor), bos_cost), safety)

calculate_system_cost(system_size_kw, equipment_catalog, assumptions) ==
    LET result(count, actual_system_watts, panel_base_cost, inverter, equipment_base_total,
               vat_amount, mounting_cost, safety, electrical_labor, bos_cost, total) ==
            [total_cost |-> total,
             cost_per_watt |-> [total |-> total, watts |-> actual_system_watts],
             breakdown |->
               [empty |-> FALSE,
                panels |-> [count |-> count, wattage |-> standard_wattage,
                            base_cost |-> panel_base_cost],
                inverter |-> [capacity_kw10 |-> inverter.capacity_kw10,
                              base_cost |-> inverter.base_cost],
                vat |-> [amount |-> vat_amount],
                mounting |-> [cost |-> mounting_cost],
                safety |-> [cost |-> safety],
                installation |-> [cost |-> electrical_labor],
                bos |-> [cost |-> bos_cost],
                total |-> total,
                actual_system_kw |-> Rat(actual_system_watts, 1000)]]
        totalled(count, actual_system_watts, panel_base_cost, inverter, equipment_base_total,
                 vat_amount, mounting_cost, safety, electrical_labor, bos_cost) ==
            result(count, actual_system_watts, panel_base_cost, inverter,
                   equipment_base_total, vat_amount, mounting_cost, safety,
                   electrical_labor, bos_cost,
                   total_cost(equipment_base_total, vat_amount, mounting_cost,
                              electrical_labor, bos_cost, safety))
        installed(count, actual_system_watts, panel_base_cost, inverter, equipment_base_total) ==
            totalled(count, actual_system_watts, panel_base_cost, inverter,
                     equipment_base_total,
                     MPct(equipment_base_total, EquipmentVatPct),
                     Money(count * MountingPerPanel * 100, 0),
                     Money(safety_cost * 100, 0),
                     \* 5000 + actual_system_kw * 2000
                     Money(LaborBase * 100 + actual_system_watts * (LaborPerKw \div 10), 0),
                     MPct(equipment_base_total, BosPct))
        equipped(count, actual_system_watts, panel_base_cost, inverter) ==
            installed(count, actual_system_watts, panel_base_cost, inverter,
                      MAdd(panel_base_cost, inverter.base_cost))
        panelled(count, actual_system_watts) ==
            equipped(count, actual_system_watts,
                     Money(actual_system_watts * panel_rate_per_watt * 100, 0),
                     inverter_choice(system_size_kw, equipment_catalog.inverters))
        counted(count) == panelled(count, count * standard_wattage)
    IN  IF ~equipment_catalog.present \/ ~assumptions
        THEN [total_cost |-> Money(0, 0),
              cost_per_watt |-> [total |-> Money(0, 0), watts |-> 1],
              breakdown |-> [empty |-> TRUE]]
        ELSE counted(num_panels(system_size_kw))

(***************************************************************************)
(* Battery sizing engine: utils/battery_calculator.py,                     *)
(* calculate_battery_specs.                                                *)
(*                                                                         *)
(* Energies are rationals in 1/100 kWh, Ah ratings rationals in Ah, the    *)
(* depth of discharge a percentage.  An optional argument is [given |->    *)
(* FALSE] for None.  `'Lithium' in battery_type` is a substring test: it   *)
(* holds of the names in LithiumNames, `'Gel' in battery_type` of those in *)
(* GelNames.                                                               *)
(***************************************************************************)
BatteryTypes == {"Lithium", "Lead-Acid", "Gel", "Lithium (LiFePO4)", "AGM"}

LithiumNames == {"Lithium", "Lithium (LiFePO4)"}

GelNames == {"Gel"}

kwh_battery_sizes == <<256, 512, 768, 1024, 1536, 2048>>

standard_sizes_lithium == <<50, 100, 150, 200, 300>>

standard_sizes_lead == <<50, 80, 100, 120, 150, 200>>

\* default_dod with the Gel case missing (Gel falls to the Lead-Acid value)
default_dod_without_gel(battery_type) ==
    IF battery_type \in LithiumNames THEN 90 ELSE 50

default_dod(battery_type) ==
    IF battery_type \in LithiumNames THEN 90
    ELSE IF battery_type \in GelNames THEN 60
    ELSE 50

\* system_voltage_config with <= at the two thresholds
system_voltage_config_inclusive(system_kw) ==
    IF ~system_kw.given \/ RLe(system_kw.kw, Rat(15, 10))
    THEN [system_voltage |-> 12, batteries_in_series |-> 1]
    ELSE IF RLe(system_kw.kw, RInt(5))
    THEN [system_voltage |-> 24, batteries_in_series |-> 2]
    ELSE [system_voltage |-> 48, batteries_in_series |-> 4]

system_voltage_config(system_kw) ==
    IF ~system_kw.given \/ RLt(system_kw.kw, Rat(15, 10))
    THEN [system_voltage |-> 12, batteries_in_series |-> 1]
    ELSE IF RLt(system_kw.kw, RInt(5))
    THEN [system_voltage |-> 24, batteries_in_series |-> 2]
    ELSE [system_voltage |-> 48, batteries_in_series |-> 4]

\* smallest_size taking the largest size that fits, not the smallest
smallest_size_largest_fit(sizes, need, fallback) ==
    LET ok == {i \in 1..Len(sizes) : RLe(need, RInt(sizes[i]))}
    IN  IF ok = {} THEN fallback
        ELSE sizes[CHOOSE i \in ok : \A j \in ok : sizes[i] >= sizes[j]]

\* min([s for s in sizes if s >= need], default=fallback), need a rational
smallest_size(sizes, need, fallback) ==
    LET ok == {i \in 1..Len(sizes) : RLe(need, RInt(sizes[i]))}
    IN  IF ok = {} THEN fallback
        ELSE sizes[CHOOSE i \in ok : \A j \in ok : sizes[i] <= sizes[j]]

\* int(x / unit), x a rational and unit a positive integer
IntQuotient(x, unit) == Trunc(x.n, x.d * unit)

\* max(1, int(total / string) + (1 if total % string > 0 else 0))
kwh_parallel_strings(total_capacity_kwh, string_kwh) ==
    Max(1, IntQuotient(total_capacity_kwh, string_kwh)
           + (IF total_capacity_kwh.n % (total_capacity_kwh.d * string_kwh) > 0
              THEN 1 ELSE 0))

\* the Lithium Ah branch: one more string than int(capacity / recommended)
\* when the chosen size is below the requirement
lithium_parallel_strings(capacity_ah, recommended_ah) ==
    IF RLt(RInt(recommended_ah), capacity_ah)
    THEN IntQuotient(capacity_ah, recommended_ah) + 1
    ELSE 1

\* The outcomes of the two float roundings that matter to int(): the float
\* quotient of an exact multiple is the whole number or falls just below it
\* (5.76 / 0.8 * 1000 / 12 is 599.9999999999999, not 600).
FloatRounding == {"exact", "below"}

\* int(x / unit) on floats, x an exact rational and unit a positive integer
FloatIntQuotient(x, unit, rounding) ==
    LET q == IntQuotient(x, unit)
    IN  IF rounding = "below" /\ x.n % (x.d * unit) = 0 /\ q > 0 THEN q - 1 ELSE q

\* lead_parallel_strings without the "+ 1"
lead_parallel_strings_floor(capacity_ah, recommended_ah, rounding) ==
    IF RLt(RInt(200), capacity_ah) THEN FloatIntQuotient(capacity_ah, 200, rounding)
    ELSE IF RLt(RInt(recommended_ah), capacity_ah)
    THEN FloatIntQuotient(capacity_ah, recommended_ah, rounding)
    ELSE 1

lead_parallel_strings(capacity_ah, recommended_ah, rounding) ==
    IF RLt(RInt(200), capacity_ah) THEN FloatIntQuotient(capacity_ah, 200, rounding) + 1
    ELSE IF RLt(RInt(recommended_ah), capacity_ah)
    THEN FloatIntQuotient(capacity_ah, recommended_ah, rounding) + 1
    ELSE 1

\* total_batteries counting one string only
total_batteries_one_string(batteries_in_series, parallel_strings) ==
    batteries_in_series

total_batteries(batteries_in_series, parallel_strings) ==
    batteries_in_series * parallel_strings

\* f"{parallel_strings}P{batteries_in_series}S" if parallel_strings > 1
\* else f"{batteries_in_series}S"
configuration(parallel_strings, batteries_in_series) ==
    IF parallel_strings > 1
    THEN ToString(parallel_strings) \o "P" \o ToString(batteries_in_series) \o "S"
    ELSE ToString(batteries_in_series) \o "S"

\* the Lead-Acid/Gel unit voltage copied from the kWh branch (system voltage)
lead_battery_voltage_unit_of_system(system_voltage) == system_voltage

\* 'battery_voltage_unit': 12 of the Lead-Acid/Gel branch
lead_battery_voltage_unit(system_voltage) == 12

\* rated_ah * 12 * parallel_strings / 1000 kWh, in 1/100 kWh
ah_bank_kwh(rated_ah, parallel_strings) == Rat(rated_ah * 12 * parallel_strings, 10)

calculate_battery_specs(backup_energy_kwh, battery_type, depth_of_discharge, system_kw, rounding) ==
    LET result(dod, volt, capacity_ah, recommended_ah, recommended_kwh, unit,
               parallel_strings, total, actual_total_kwh, is_kwh_based) ==
            [total_capacity_kwh |-> actual_total_kwh,
             usable_capacity_kwh |-> RMul(actual_total_kwh, Rat(dod, 100)),
             capacity_ah |-> capacity_ah,
             recommended_ah |-> recommended_ah,
             recommended_kwh |-> recommended_kwh,
             system_voltage |-> volt.system_voltage,
             battery_voltage_unit |-> unit,
             batteries_in_series |-> volt.batteries_in_series,
             parallel_strings |-> parallel_strings,
             total_batteries |-> total,
             depth_of_discharge |-> dod,
             battery_type |-> battery_type,
             configuration |-> configuration(parallel_strings, volt.batteries_in_series),
             is_kwh_based |-> is_kwh_based]
        \* the kWh packs of a Lithium bank of 2.5 kWh and more
        kwh_strung(dod, volt, recommended_kwh_per_battery, recommended_ah, parallel_strings, total) ==
            result(dod, volt, RInt(recommended_ah), recommended_ah,
                   recommended_kwh_per_battery, volt.system_voltage, parallel_strings, total,
                   RInt(recommended_kwh_per_battery * total), TRUE)
        kwh_sized(dod, volt, total_capacity_kwh, recommended_kwh_per_battery, parallel_strings) ==
            kwh_strung(dod, volt, recommended_kwh_per_battery,
                       Trunc(recommended_kwh_per_battery * 10, volt.system_voltage),
                       parallel_strings,
                       total_batteries(volt.batteries_in_series, parallel_strings))
        kwh_based(dod, volt, total_capacity_kwh, recommended_kwh_per_battery) ==
            kwh_sized(dod, volt, total_capacity_kwh, recommended_kwh_per_battery,
                      kwh_parallel_strings(total_capacity_kwh,
                          recommended_kwh_per_battery * volt.batteries_in_series))
        \* the 12 V Ah batteries of a small Lithium bank and of Lead-Acid/Gel
        ah_strung(dod, volt, capacity_ah, recommended_ah, unit, parallel_strings) ==
            result(dod, volt, capacity_ah, recommended_ah, 0, unit, parallel_strings,
                   total_batteries(volt.batteries_in_series, parallel_strings),
                   ah_bank_kwh(recommended_ah, parallel_strings), FALSE)
        lithium_ah(dod, volt, capacity_ah, recommended_ah) ==
            ah_strung(dod, volt, capacity_ah, recommended_ah, 12,
                      lithium_parallel_strings(capacity_ah, recommended_ah))
        lead_ah(dod, volt, capacity_ah, found) ==
            ah_strung(dod, volt, capacity_ah,
                      IF RLt(RInt(200), capacity_ah) THEN 200 ELSE found,
                      lead_battery_voltage_unit(volt.system_voltage),
                      lead_parallel_strings(capacity_ah, found, rounding))
        branch(dod, volt, total_capacity_kwh, capacity_ah) ==
            IF battery_type \in LithiumNames /\ RLe(RInt(250), total_capacity_kwh)
            THEN kwh_based(dod, volt, total_capacity_kwh,
                           smallest_size(kwh_battery_sizes,
                                         Rat(total_capacity_kwh.n,
                                             total_capacity_kwh.d * volt.batteries_in_series),
                                         kwh_battery_sizes[Len(kwh_battery_sizes)]))
            ELSE IF battery_type \in LithiumNames
            THEN lithium_ah(dod, volt, capacity_ah,
                            smallest_size(standard_sizes_lithium, capacity_ah, 300))
            ELSE lead_ah(dod, volt, capacity_ah,
                         smallest_size(standard_sizes_lead, capacity_ah, 200))
        \* total_capacity_kwh = usable_capacity_kwh / dod;
        \* capacity_ah = (total_capacity_kwh * 1000) / 12
        required(dod, volt, total_capacity_kwh) ==
            branch(dod, volt, total_capacity_kwh,
                   Rat(total_capacity_kwh.n * 10, total_capacity_kwh.d * 12))
        configured(dod, volt) ==
            required(dod, volt, Rat(backup_energy_kwh.n * 100, backup_energy_kwh.d * dod))
    IN  configured(IF ~depth_of_discharge.given THEN default_dod(battery_type)
                   ELSE depth_of_discharge.pct,
                   system_voltage_config(system_kw))

(***************************************************************************)
(* Battery cost: utils/battery_calculator.py, calculate_battery_cost.      *)
(* initial_cost_ksh is in cents; every bank the sizing engine returns is a *)
(* whole number of 1/100 kWh.                                              *)
(***************************************************************************)
calculate_battery_cost(battery_specs, battery_type) ==
    LET capacity_kwh == battery_specs.total_capacity_kwh
        lithium == battery_type = "Lithium"
        cost_per_kwh == IF lithium THEN 50000 ELSE 20000
    IN  [initial_cost_ksh |-> (capacity_kwh.n * cost_per_kwh) \div capacity_kwh.d,
         cost_per_kwh |-> cost_per_kwh,
         cycle_life |-> IF lithium THEN 6000 ELSE 1500,
         warranty_years |-> IF lithium THEN 10 ELSE 3]

(***************************************************************************)
(* Quick ROI: app.py, calculate_quick_roi.                                 *)
(*                                                                         *)
(* monthly_kwh, rate (KSh/kWh) and the energies are rationals, ghi is in   *)
(* 1/10 kWh/m2/day, battery_cost in cents.  payback_years is float('inf')  *)
(* or the quotient upfront_cost / annual_savings, kept unevaluated as      *)
(* [num, den]; npv_25yr is kept as the terms of its sum.  The globals      *)
(* EQUIPMENT_CATALOG and ASSUMPTIONS are the last two parameters.          *)
(***************************************************************************)
RDiv(x, y) == RMul(x, [n |-> y.d, d |-> y.n])

\* ghi * 0.15 * 0.80 * 6.5 * 365 = ghi * 284.7
annual_yield_per_kw(ghi) == Rat(ghi * 2847, 100)

\* quick_system_kw without the 0.5 kW floor
quick_system_kw_unfloored(annual_kwh, yield_per_kw) ==
    IF yield_per_kw.n > 0 THEN RDiv(annual_kwh, yield_per_kw) ELSE RInt(1)

\* max(0.5, annual_kwh / annual_yield_per_kw if annual_yield_per_kw > 0 else 1)
quick_system_kw(annual_kwh, yield_per_kw) ==
    RMax(Rat(1, 2), IF yield_per_kw.n > 0 THEN RDiv(annual_kwh, yield_per_kw) ELSE RInt(1))

\* annual_savings valuing all of the generation
annual_savings_uncapped(annual_generation, annual_kwh, rate) ==
    RMul(annual_generation, rate)

\* min(annual_generation, annual_kwh) * rate
annual_savings(annual_generation, annual_kwh, rate) ==
    RMul(RMin(annual_generation, annual_kwh), rate)

\* The doubles of annual_generation = actual_system_kw * annual_yield_per_kw
\* and of annual_savings are held as the rational they round and a distance
\* from it in units of the last place.  Where the rational product equals
\* annual_kwh (system_kw is the quotient annual_kwh / annual_yield_per_kw and
\* no panel was rounded up) the double is annual_kwh, or its neighbour above
\* or below; below, min() takes it, and its product with the rate keeps the
\* deficit or rounds back to annual_kwh * rate.
ProductRoundings == {"exact", "above", "below", "below, absorbed"}

annual_generation_ulps(annual_generation, annual_kwh, rounding) ==
    IF annual_generation = annual_kwh /\ annual_generation.n > 0
    THEN CASE rounding = "exact" -> 0
           [] rounding = "above" -> 1
           [] OTHER -> -1
    ELSE 0

annual_savings_ulps(generation_ulps, rate, rounding) ==
    IF generation_ulps < 0 /\ rate.n # 0 /\ rounding = "below" THEN -1 ELSE 0

\* upfront_cost leaving the batteries out
quick_upfront_cost_solar_only(solar_cost, battery_cost) == solar_cost

\* upfront_cost = solar_cost + battery_cost
quick_upfront_cost(solar_cost, battery_cost) == MAdd(solar_cost, Money(battery_cost, 0))

\* float('inf')
Infinity == [inf |-> TRUE, num |-> Money(0, 0), den |-> RInt(1)]

\* the finite number of years num / den, num a Money and den a rational in KSh
Years(num, den) == [inf |-> FALSE, num |-> num, den |-> den]

\* upfront_cost / annual_savings if annual_savings > 0 else float('inf')
payback(upfront_cost, savings) ==
    IF savings.n > 0 THEN Years(upfront_cost, savings) ELSE Infinity

calculate_quick_roi(monthly_kwh, ghi, rate, battery_cost, equipment_catalog, assumptions, rounding) ==
    LET rounded(exact, generation_ulps) ==
            exact @@ [annual_generation_ulps |-> generation_ulps,
                      annual_savings_ulps |->
                          annual_savings_ulps(generation_ulps, rate, rounding)]
        result(annual_kwh, system_kw, cost, upfront_cost, annual_generation, savings) ==
          rounded(
            [system_kw |-> system_kw,
             solar_cost |-> cost.total_cost,
             battery_cost |-> battery_cost,
             upfront_cost |-> upfront_cost,
             cost_per_watt |-> cost.cost_per_watt,
             cost_breakdown |-> cost.breakdown,
             annual_kwh |-> annual_kwh,
             annual_generation |-> annual_generation,
             annual_savings |-> savings,
             payback_years |-> payback(upfront_cost, savings),
             npv_25yr |-> [upfront_cost |-> upfront_cost, annual_savings |-> savings,
                           discount_pct |-> 8, years |-> 25]],
            annual_generation_ulps(annual_generation, annual_kwh, rounding))
        generating(annual_kwh, system_kw, cost, annual_generation) ==
            result(annual_kwh, system_kw, cost,
                   quick_upfront_cost(cost.total_cost, battery_cost),
                   annual_generation,
                   annual_savings(annual_generation, annual_kwh, rate))
        \* actual_system_kw = cost_breakdown.get('actual_system_kw', system_kw)
        priced(annual_kwh, yield_per_kw, system_kw, cost) ==
            generating(annual_kwh, system_kw, cost,
                       RMul(IF cost.breakdown.empty THEN system_kw
                            ELSE cost.breakdown.actual_system_kw,
                            yield_per_kw))
        sized(annual_kwh, yield_per_kw, system_kw) ==
            priced(annual_kwh, yield_per_kw, system_kw,
                   calculate_system_cost(system_kw, equipment_catalog, assumptions))
        yielding(annual_kwh, yield_per_kw) ==
            sized(annual_kwh, yield_per_kw, quick_system_kw(annual_kwh, yield_per_kw))
    IN  yielding(RMul(monthly_kwh, RInt(12)), annual_yield_per_kw(ghi))

(***************************************************************************)
(* The session flow of app.py: the Home page's Analyze button writes       *)
(* st.session_state, the Analyses page reads it.  The monthly consumption  *)
(* is in half kWh as in the tariff engine.                                 *)
(***************************************************************************)
\* the session before any Analyze click: no 'monthly_consumption', step 1
NoSession == [set |-> FALSE, step |-> 1]

SystemTypes ==
    {"Hybrid (With Backup)", "Off-grid (Complete Independence)", "Grid-tied (Cheapest)"}

\* "Hybrid" in system_type or "Off-grid" in system_type
WithBattery(system_type) ==
    system_type \in {"Hybrid (With Backup)", "Off-grid (Complete Independence)"}

BatteryTypeDetails ==
    {"Gel (Maintenance-Free) - Recommended", "Lead-Acid (Flooded) - Budget",
     "Lithium (LiFePO4) - Premium"}

bat_type_map(battery_type_detail) ==
    CASE battery_type_detail = "Gel (Maintenance-Free) - Recommended" -> "Gel"
      [] battery_type_detail = "Lead-Acid (Flooded) - Budget"         -> "Lead-Acid"
      [] battery_type_detail = "Lithium (LiFePO4) - Premium"          -> "Lithium"

BackupDurations == {4, 8, 12, 24}

\* (monthly_consumption / 30.44 / 24) * backup_hours, in 1/100 kWh
home_backup_energy_kwh(monthly2, backup_hours) ==
    Rat(monthly2 * 10000 * backup_hours, 2 * 3044 * 24)

\* max(0.5, (monthly_consumption * 12) / (ghi_value * 0.15 * 0.80 * 6.5 * 365))
estimated_system_kw(monthly2, ghi) ==
    RMax(Rat(1, 2), Rat(monthly2 * 600, ghi * 2847))

\* the battery estimate of the Home page, the values it stores for later use
home_battery(monthly2, ghi, battery_type_detail, backup_hours, rounding) ==
    LET stored(actual_bat_type, bat_specs, bat_cost) ==
            [battery_type |-> actual_bat_type,
             battery_cost |-> bat_cost.initial_cost_ksh,
             battery_num |-> bat_specs.total_batteries,
             battery_ah |-> bat_specs.recommended_ah,
             battery_voltage |-> bat_specs.system_voltage,
             battery_config |-> bat_specs.configuration]
        costed(actual_bat_type, bat_specs) ==
            stored(actual_bat_type, bat_specs,
                   calculate_battery_cost(bat_specs, actual_bat_type))
        specified(actual_bat_type) ==
            costed(actual_bat_type,
                   calculate_battery_specs(
                       home_backup_energy_kwh(monthly2, backup_hours), actual_bat_type,
                       [given |-> FALSE],
                       [given |-> TRUE, kw |-> estimated_system_kw(monthly2, ghi)],
                       rounding))
    IN  specified(bat_type_map(battery_type_detail))

\* dict.get(key, default)
Get(dict, key, default) == IF key \in DOMAIN dict THEN dict[key] ELSE default

\* create_financial_timeline: the marker it draws, 'Payback Point (... yrs)'
\* at x = payback_period
create_financial_timeline(upfront_cost, savings, payback_period, npv_25yr, inverter_replacement_cost) ==
    [payback_point |-> payback_period]

\* the Analyses page from the estimate to the Financial tab
analyses_page(session, equipment_catalog, assumptions, rounding) ==
    LET shown(estimate) ==
            IF estimate.cost_breakdown.empty
            THEN \* bd['panels']['count'] of an empty breakdown
                 [page |-> "Analyses", outcome |-> "KeyError"]
            ELSE [page |-> "Analyses", outcome |-> "shown",
                  estimate |-> estimate,
                  \* f"{payback:.1f} yrs" if payback != float('inf') else "N/A"
                  payback_display |-> IF estimate.payback_years # Infinity
                                      THEN [text |-> "yrs", years |-> estimate.payback_years]
                                      ELSE [text |-> "N/A", years |-> Infinity],
                  timeline |-> create_financial_timeline(
                                   estimate.upfront_cost, estimate.annual_savings,
                                   \* payback if payback != float('inf') else 0
                                   IF estimate.payback_years # Infinity
                                   THEN estimate.payback_years
                                   ELSE Years(Money(0, 0), RInt(1)),
                                   estimate.npv_25yr,
                                   \* inverter_cost = upfront_cost * 0.20 * 0.5
                                   MPct(estimate.upfront_cost, 10))]
    IN  IF "effective_rate" \notin DOMAIN session
        THEN \* st.session_state['effective_rate']
             [page |-> "Analyses", outcome |-> "KeyError"]
        ELSE shown(calculate_quick_roi(Rat(session.monthly_consumption, 2),
                                       session.ghi_value, session.effective_rate,
                                       session.battery_cost, equipment_catalog,
                                       assumptions, rounding))

\* the Export page's report summary; its estimate is computed without the
\* battery cost, and the Total ROI line divides by upfront_cost
export_page(session, equipment_catalog, assumptions, rounding) ==
    LET reported(estimate) ==
            IF estimate.upfront_cost = Money(0, 0)
            THEN [page |-> "Export", outcome |-> "ZeroDivisionError"]
            ELSE [page |-> "Export", outcome |-> "shown", estimate |-> estimate]
    IN  reported(calculate_quick_roi(Rat(session.monthly_consumption, 2),
                                     session.ghi_value,
                                     Get(session, "effective_rate", RInt(20)),
                                     0, equipment_catalog, assumptions, rounding))

\* Python's None, where a value may be absent
None == [given |-> FALSE]

(***************************************************************************)
(* The remote recommendation: utils/gemini_handler.py,                     *)
(* generate_solar_recommendation, from the API key lookup on.  What lies   *)
(* outside the function is its environment: whether a key is set, whether  *)
(* genai.configure raises, how model.generate_content ends (a response, a  *)
(* GoogleAPICallError, any other exception), and response.text (a JSON     *)
(* object, the JSON value null, text that is not JSON, or the ValueError   *)
(* the property raises for a response without text).  remote_calls counts  *)
(* the calls of generate_content.                                          *)
(***************************************************************************)
GenerateOutcomes == {"response", "GoogleAPICallError", "Exception"}

ResponseTexts == {"object", "null", "not JSON", "ValueError"}

RecommendationEnvs ==
    [api_key : BOOLEAN, configure_raises : BOOLEAN,
     generate_content : GenerateOutcomes, text : ResponseTexts]

\* the message every handler builds from the exception it catches
uniform_error_message(exception) == "An unexpected error occurred"

\* the except clauses, in their order
error_message(exception) ==
    CASE exception = "GoogleAPICallError" -> "Gemini API Error"
      [] exception = "JSONDecodeError" -> "JSON Decode Error"
      [] OTHER -> "An unexpected error occurred"

\* (None, error_message)
Failure(message, remote_calls) ==
    [recommendation |-> None, error |-> [given |-> TRUE, message |-> message],
     remote_calls |-> remote_calls]

\* json.loads(response.text) of text that is JSON
json_loads(text) ==
    IF text = "null" THEN None ELSE [given |-> TRUE, json |-> text]

generate_solar_recommendation(env) ==
    IF ~env.api_key THEN Failure("Gemini API key not found", 0)
    ELSE IF env.configure_raises THEN Failure("Error configuring Gemini client", 0)
    ELSE IF env.generate_content # "response"
    THEN Failure(error_message(env.generate_content), 1)
    ELSE IF env.text = "ValueError" THEN Failure(error_message("ValueError"), 1)
    ELSE IF env.text = "not JSON" THEN Failure(error_message("JSONDecodeError"), 1)
    ELSE [recommendation |-> json_loads(env.text), error |-> None, remote_calls |-> 1]

(***************************************************************************)
(* Advisory validation: utils/accuracy_validator.py.  A confidence is held *)
(* in percent, the overall confidence as a rational number of percent.     *)
(* system_kw, payback_years and ghi are rationals, cost_per_watt and the   *)
(* monthly consumption whole numbers.  A warning is held by its kind.      *)
(***************************************************************************)
Validation(is_valid, warnings, confidence) ==
    [is_valid |-> is_valid, warnings |-> warnings, confidence |-> confidence]

\* expected_total_generation / annual_consumption if annual_consumption > 0 else 0
coverage_ratio(system_kw, monthly_consumption_kwh, ghi) ==
    IF monthly_consumption_kwh > 0
    THEN RDiv(RMul(system_kw, RMul(ghi, Rat(365 * 75, 100))),
              RInt(monthly_consumption_kwh * 12))
    ELSE RInt(0)

validate_system_sizing(system_kw, monthly_consumption_kwh, ghi) ==
    LET judged(ratio) ==
            LET oversized == RLt(Rat(3, 2), ratio)
                undersized == RLt(ratio, Rat(7, 10))
                optimal == RLe(Rat(9, 10), ratio) /\ RLe(ratio, Rat(6, 5))
            IN  Validation(optimal,
                           (IF oversized THEN <<"oversized">> ELSE <<>>)
                               \o (IF undersized THEN <<"undersized">> ELSE <<>>)
                               \o (IF optimal THEN <<"optimal">> ELSE <<>>),
                           Max(0, Min(100, 100 - (IF oversized THEN 20 ELSE 0)
                                               - (IF undersized THEN 15 ELSE 0))))
    IN  judged(coverage_ratio(system_kw, monthly_consumption_kwh, ghi))

validate_payback_period(payback_years) ==
    LET is_valid == RLe(RInt(3), payback_years) /\ RLe(payback_years, RInt(15))
    IN  IF RLt(payback_years, RInt(3)) THEN Validation(is_valid, <<"too optimistic">>, 40)
        ELSE IF RLt(RInt(15), payback_years) THEN Validation(is_valid, <<"very long">>, 50)
        ELSE IF RLe(RInt(5), payback_years) /\ RLe(payback_years, RInt(10))
        THEN Validation(is_valid, <<"realistic">>, 100)
        ELSE Validation(is_valid, <<>>, 80)

validate_cost_per_watt(cost_per_watt) ==
    LET is_valid == 55 <= cost_per_watt /\ cost_per_watt <= 150
    IN  IF cost_per_watt < 55 THEN Validation(is_valid, <<"too low">>, 50)
        ELSE IF cost_per_watt > 150 THEN Validation(is_valid, <<"above market">>, 60)
        ELSE IF 70 <= cost_per_watt /\ cost_per_watt <= 110
        THEN Validation(is_valid, <<"typical">>, 100)
        ELSE Validation(is_valid, <<>>, 80)

validate_ghi_location(ghi) ==
    LET is_valid == RLe(RInt(4), ghi)
    IN  IF RLt(ghi, Rat(9, 2)) THEN Validation(is_valid, <<"low">>, 70)
        ELSE IF RLe(Rat(11, 2), ghi) THEN Validation(is_valid, <<"excellent">>, 100)
        ELSE Validation(is_valid, <<"good">>, 90)

\* the level with the thresholds exclusive
confidence_level_exclusive(overall) ==
    IF RLt(RInt(85), overall) THEN <<"High", "green">>
    ELSE IF RLt(RInt(70), overall) THEN <<"Good", "lightgreen">>
    ELSE IF RLt(RInt(50), overall) THEN <<"Moderate", "orange">>
    ELSE <<"Low", "red">>

\* the if/elif chain over `overall`
confidence_level(overall) ==
    IF RLe(RInt(85), overall) THEN <<"High", "green">>
    ELSE IF RLe(RInt(70), overall) THEN <<"Good", "lightgreen">>
    ELSE IF RLe(RInt(50), overall) THEN <<"Moderate", "orange">>
    ELSE <<"Low", "red">>

\* [result[2] for result in validation_results]
Confidences(validation_results) ==
    [i \in 1..Len(validation_results) |-> validation_results[i].confidence]

calculate_overall_confidence(validation_results) ==
    LET levelled(overall, level) ==
            [overall_confidence |-> overall, confidence_level |-> level[1],
             color |-> level[2]]
        averaged(overall) == levelled(overall, confidence_level(overall))
    IN  IF validation_results = <<>> THEN levelled(RInt(50), <<"Moderate", "orange">>)
        ELSE averaged(Rat(SumSeq(Confidences(validation_results)),
                          Len(validation_results)))

\* validate_recommendation from "Run validations" on
run_validations(system_kw, payback_years, cost_per_watt, monthly_consumption_kwh, ghi) ==
    LET concluded(validation_list, overall) ==
            [validations |-> validation_list,
             overall_confidence |-> overall.overall_confidence,
             confidence_level |-> overall.confidence_level,
             color |-> overall.color]
        listed(validation_list) ==
            concluded(validation_list, calculate_overall_confidence(validation_list))
    IN  listed(<<validate_system_sizing(system_kw, monthly_consumption_kwh, ghi),
                 validate_payback_period(payback_years),
                 validate_cost_per_watt(cost_per_watt),
                 validate_ghi_location(ghi)>>)

(***************************************************************************)
(* Appliance load: app.py, calculate_appliance_load.  Hours are in tenths  *)
(* of an hour, so power x hours x count is in tenths of a Wh; appliances   *)
(* is a function from the names the caller lists to their counts.          *)
(***************************************************************************)
\* SPECS: (power in W, hours per day in tenths)
SPECS(water_pump_hours) ==
    [app \in {"Fridge", "Freezer", "TV", "LED Lights", "Laptop", "Router",
              "Phone Chargers", "Water Pump", "Air Conditioner", "Iron",
              "Washing Machine", "Microwave", "Electric Stove", "Water Heater"} |->
        CASE app = "Fridge" -> <<150, 240>>
          [] app = "Freezer" -> <<150, 240>>
          [] app = "TV" -> <<80, 40>>
          [] app = "LED Lights" -> <<10, 50>>
          [] app = "Laptop" -> <<60, 60>>
          [] app = "Router" -> <<10, 240>>
          [] app = "Phone Chargers" -> <<30, 30>>
          [] app = "Water Pump" -> <<500, water_pump_hours>>
          [] app = "Air Conditioner" -> <<1500, 80>>
          [] app = "Iron" -> <<1000, 3>>
          [] app = "Washing Machine" -> <<500, 4>>
          [] app = "Microwave" -> <<800, 5>>
          [] app = "Electric Stove" -> <<2000, 10>>
          [] app = "Water Heater" -> <<1500, 5>>]

\* the filter of the sum with `count > 0` left out
counted_appliances_any_count(appliances, specs) ==
    {app \in DOMAIN appliances : app \in DOMAIN specs}

\* if (spec := SPECS.get(app)) and count > 0
counted_appliances(appliances, specs) ==
    {app \in DOMAIN appliances : app \in DOMAIN specs /\ appliances[app] > 0}

\* sum(power * hours * count for ...) over the appliances in `apps`
RECURSIVE appliance_energy(_, _, _)
appliance_energy(apps, appliances, specs) ==
    IF apps = {} THEN 0
    ELSE LET app == CHOOSE a \in apps : TRUE
         IN  specs[app][1] * specs[app][2] * appliances[app]
                 + appliance_energy(apps \ {app}, appliances, specs)

\* daily_kwh * 30.44, a rational number of kWh
calculate_appliance_load(appliances, water_pump_hours) ==
    LET summed(specs) ==
            Rat(appliance_energy(counted_appliances(appliances, specs), appliances, specs)
                    * 3044,
                10000 * 100)
    IN  summed(SPECS(water_pump_hours))

\* dict.get(key, default)

\* total_cost / (system_kw * 1000) if system_kw > 0 else 0; the inputs keep
\* the quotient a whole number
cost_per_watt_of(upfront, system_kw) ==
    IF system_kw.n > 0 THEN (upfront * system_kw.d) \div (system_kw.n * 1000) ELSE 0

\* validate_recommendation: the values it extracts from the recommendation,
\* the four checks and the overall confidence; a recommendation that is not
\* a dict raises inside the try block and ends in the except clause
validate_recommendation(recommendation, monthly_consumption_kwh, ghi) ==
    LET checked(system_kw, payback_years, upfront) ==
            run_validations(system_kw, payback_years,
                            cost_per_watt_of(upfront, system_kw),
                            monthly_consumption_kwh, ghi)
        extracted(system_sizing, financial) ==
            checked(Get(system_sizing, "required_system_size_kw", RInt(0)),
                    Get(financial, "payback_period_years", RInt(0)),
                    Get(financial, "total_upfront_cost_ksh", 0))
    IN  IF recommendation = None
        THEN [validations |-> <<>>, overall_confidence |-> RInt(0),
              confidence_level |-> "Unknown", color |-> "gray"]
        ELSE extracted(Get(recommendation, "system_sizing", <<>>),
                       Get(recommendation, "financial_analysis", <<>>))

(***************************************************************************)
(* The harness: Init draws one call and its arguments, the call's action   *)
(* applies the function.                                                   *)
(***************************************************************************)
NoResult == [none |-> TRUE]

TariffCalls ==
    {[monthly2 |-> c, tariff_data |-> t] : c \in 0..MaxConsumption2, t \in TariffInputs}

SystemCostCalls ==
    {[system_size_kw |-> Rat(k * 50, 1000), equipment_catalog |-> c,
      assumptions |-> a] : k \in -1..MaxSizeSteps, c \in Catalogs, a \in BOOLEAN}

DodInputs == {None, [given |-> TRUE, pct |-> 80], [given |-> TRUE, pct |-> 100]}

SystemKwInputs == {None} \cup {[given |-> TRUE, kw |-> Rat(k * 500, 1000)] : k \in 1..MaxKwSteps}

BatteryCalls ==
    {[backup_energy_kwh |-> RInt(k * 16), battery_type |-> t, depth_of_discharge |-> d,
      system_kw |-> s] :
        k \in 0..MaxBackupSteps, t \in BatteryTypes, d \in DodInputs, s \in SystemKwInputs}

\* calculate_battery_specs(backup_energy_kwh, battery_type) followed by
\* calculate_battery_cost(specs, battery_type), as every caller pairs them
BatteryCostCalls ==
    {b \in BatteryCalls : b.depth_of_discharge = None /\ b.system_kw = None}

ValidatedSizes == {RInt(0), RInt(1), RInt(3), RInt(6)}

ValidatedConsumptions == {0, 100, 300}

ValidatedGhi ==
    {RInt(0), Rat(39, 10), RInt(4), Rat(44, 10), Rat(9, 2), Rat(27, 5), Rat(11, 2), RInt(6)}

ValidatedPaybacks ==
    {RInt(0), Rat(29, 10), RInt(3), Rat(49, 10), RInt(5), RInt(10), Rat(101, 10),
     RInt(15), Rat(151, 10)}

ValidatedCosts == {0, 54, 55, 69, 70, 110, 111, 150, 151}

ValidationCalls ==
    [system_kw : ValidatedSizes, payback_years : ValidatedPaybacks,
     cost_per_watt : ValidatedCosts, monthly_consumption_kwh : ValidatedConsumptions,
     ghi : ValidatedGhi]

\* the names a caller lists ("Sauna" has no spec) and their counts
ListedAppliances == {"Fridge", "Water Pump", "Iron", "Sauna"}

ApplianceCounts == {-1, 0, 1, 2}

\* water_pump_hours in tenths of an hour; 20 is the default
PumpHours == {0, 20, 50}

ApplianceCalls ==
    [appliances : [ListedAppliances -> ApplianceCounts], water_pump_hours : PumpHours]

\* financial_analysis as the recommendation schema names its fields, and
\* with the upfront cost under the name the validator looks up
FinancialAnalyses ==
    {[upfront_cost_ksh |-> c, payback_period_years |-> RInt(7)] :
        c \in {0, 150000, 300000, 600000}}
    \cup {[total_upfront_cost_ksh |-> c, payback_period_years |-> RInt(7)] :
        c \in {0, 150000, 300000, 600000}}

Recommendations ==
    {None} \cup {[financial_analysis |-> f]  : f \in FinancialAnalyses}
           \cup {[system_sizing |-> [required_system_size_kw |-> kw],
                  financial_analysis |-> f] :
                    kw \in {RInt(0), RInt(3)}, f \in FinancialAnalyses}

RecommendationCalls ==
    [recommendation : Recommendations, monthly_consumption_kwh : {300},
     ghi : {Rat(26, 5)}]

GhiInputs == {0, 45, 52, 60}

RateInputs == {RInt(0), RInt(20), Rat(51, 2)}

BatteryCostInputs == {0, 24000000}

QuickRoiCalls ==
    {[monthly_kwh |-> RInt(k * 25), ghi |-> g, rate |-> r, battery_cost |-> b,
      equipment_catalog |-> c, assumptions |-> a] :
        k \in -2..MaxMonthlySteps, g \in GhiInputs, r \in RateInputs,
        b \in BatteryCostInputs, c \in Catalogs, a \in BOOLEAN}

\* the data files as load_all_data left them: a file that is missing or not
\* JSON loads as None
LoadedData ==
    {[tariff_data |-> t, equipment_catalog |-> c, assumptions |-> a] :
        t \in {NoTariffData, TariffData(EpraTiers), TariffData(MalformedTiers)},
        c \in Catalogs, a \in BOOLEAN}

\* Home page inputs: consumption in half kWh, irradiance in 1/10 kWh/m2/day
HomeConsumptions2 == {10, 20, 61, 400, 1000}

HomeGhi == {45, 52, 60}

\* one run of the app: the loaded data and the values of the Home page's
\* widgets
AppRuns ==
    {[data |-> d, monthly_consumption |-> m, ghi_value |-> g, system_type |-> s,
      battery_type_detail |-> b, backup_hours |-> h] :
        d \in LoadedData, m \in HomeConsumptions2, g \in HomeGhi, s \in SystemTypes,
        b \in BatteryTypeDetails, h \in BackupDurations}

Init ==
    /\ ret = NoResult
    /\ session_state = NoSession
    /\ \/ pc = "call" /\ op = "calculate_tariff_cost" /\ args \in TariffCalls
       \/ pc = "call" /\ op = "calculate_system_cost" /\ args \in SystemCostCalls
       \/ pc = "call" /\ op = "calculate_battery_specs" /\ args \in BatteryCalls
       \/ pc = "call" /\ op = "calculate_battery_cost" /\ args \in BatteryCostCalls
       \/ pc = "call" /\ op = "calculate_quick_roi" /\ args \in QuickRoiCalls
       \/ pc = "call" /\ op = "generate_solar_recommendation" /\ args \in RecommendationEnvs
       \/ pc = "call" /\ op = "validate_recommendation" /\ args \in ValidationCalls
       \/ pc = "call" /\ op = "calculate_appliance_load" /\ args \in ApplianceCalls
       \/ pc = "call" /\ op = "accuracy_validator.validate_recommendation" /\ args \in RecommendationCalls
       \/ pc = "run" /\ op = "app" /\ args \in AppRuns

CallTariffCost ==
    /\ pc = "call" /\ op = "calculate_tariff_cost"
    /\ ret' = calculate_tariff_cost(args.monthly2, args.tariff_data)
    /\ pc' = "done"
    /\ UNCHANGED <<op, args, session_state>>

CallSystemCost ==
    /\ pc = "call" /\ op = "calculate_system_cost"
    /\ ret' = calculate_system_cost(args.system_size_kw, args.equipment_catalog,
                                    args.assumptions)
    /\ pc' = "done"
    /\ UNCHANGED <<op, args, session_state>>

CallBatterySpecs ==
    /\ pc = "call" /\ op = "calculate_battery_specs"
    /\ \E rounding \in FloatRounding :
          ret' = calculate_battery_specs(args.backup_energy_kwh, args.battery_type,
                                         args.depth_of_discharge, args.system_kw,
                                         rounding)
    /\ pc' = "done"
    /\ UNCHANGED <<op, args, session_state>>

\* specs = calculate_battery_specs(backup_energy_kwh, battery_type);
\* cost_data = calculate_battery_cost(specs, battery_type)
CallBatteryCost ==
    /\ pc = "call" /\ op = "calculate_battery_cost"
    /\ \E rounding \in FloatRounding :
          LET priced(specs) ==
                  [battery_specs |-> specs,
                   battery_cost |-> calculate_battery_cost(specs, args.battery_type)]
          IN  ret' = priced(calculate_battery_specs(args.backup_energy_kwh,
                                                    args.battery_type,
                                                    args.depth_of_discharge,
                                                    args.system_kw, rounding))
    /\ pc' = "done"
    /\ UNCHANGED <<op, args, session_state>>

CallQuickRoi ==
    /\ pc = "call" /\ op = "calculate_quick_roi"
    /\ \E rounding \in ProductRoundings :
          ret' = calculate_quick_roi(args.monthly_kwh, args.ghi, args.rate,
                                     args.battery_cost, args.equipment_catalog,
                                     args.assumptions, rounding)
    /\ pc' = "done"
    /\ UNCHANGED <<op, args, session_state>>

CallValidation ==
    /\ pc = "call" /\ op = "validate_recommendation"
    /\ ret' = run_validations(args.system_kw, args.payback_years, args.cost_per_watt,
                              args.monthly_consumption_kwh, args.ghi)
    /\ pc' = "done"
    /\ UNCHANGED <<op, args, session_state>>

CallRecommendation ==
    /\ pc = "call" /\ op = "generate_solar_recommendation"
    /\ ret' = generate_solar_recommendation(args)
    /\ pc' = "done"
    /\ UNCHANGED <<op, args, session_state>>

CallApplianceLoad ==
    /\ pc = "call" /\ op = "calculate_appliance_load"
    /\ ret' = calculate_appliance_load(args.appliances, args.water_pump_hours)
    /\ pc' = "done"
    /\ UNCHANGED <<op, args, session_state>>

CallValidateRecommendation ==
    /\ pc = "call" /\ op = "accuracy_validator.validate_recommendation"
    /\ ret' = [results |-> validate_recommendation(args.recommendation,
                                                   args.monthly_consumption_kwh,
                                                   args.ghi),
               recommendation |-> args.recommendation]
    /\ pc' = "done"
    /\ UNCHANGED <<op, args, session_state>>

\* Home page, "Analyze My Solar Potential": the button is there when
\* monthly_consumption >= 10.  A Grid-tied system leaves battery_voltage and
\* battery_config unassigned and the handler stops with a NameError before it
\* writes the session.  Otherwise the first update stores the inputs and
\* step 2, then the tariff is calculated, and the second update stores its
\* result; an exception of the tariff calculation ends the handler between
\* the two.
HomeAnalyze ==
    /\ pc = "run" /\ op = "app"
    /\ args.monthly_consumption >= 2 * 10
    /\ IF WithBattery(args.system_type)
       THEN \E rounding \in FloatRounding :
              LET priced(saved, tariff) ==
                      /\ session_state' =
                            [effective_rate |-> tariff.effective_rate,
                             tariff_category |-> tariff.tariff_category,
                             monthly_cost |-> tariff.total_monthly_cost] @@ saved
                      /\ ret' = [page |-> "Home", outcome |-> "ready"]
                  updated(saved) ==
                      IF tariff_cost_raises(args.monthly_consumption, args.data.tariff_data)
                      THEN /\ session_state' = saved
                           /\ ret' = [page |-> "Home", outcome |-> "KeyError"]
                      ELSE priced(saved,
                                  calculate_tariff_cost(args.monthly_consumption,
                                                        args.data.tariff_data))
              IN  updated([set |-> TRUE,
                           monthly_consumption |-> args.monthly_consumption,
                           ghi_value |-> args.ghi_value,
                           system_type |-> args.system_type,
                           battery_type_detail |-> args.battery_type_detail,
                           backup_hours |-> args.backup_hours,
                           step |-> 2]
                          @@ home_battery(args.monthly_consumption, args.ghi_value,
                                          args.battery_type_detail, args.backup_hours,
                                          rounding))
       ELSE /\ ret' = [page |-> "Home", outcome |-> "NameError"]
            /\ UNCHANGED session_state
    /\ UNCHANGED <<op, args, pc>>

\* Analyses page: without a session it only asks for the Home page
AnalysesPage ==
    /\ pc = "run" /\ op = "app"
    /\ \E rounding \in ProductRoundings :
          ret' = IF session_state.set
                 THEN analyses_page(session_state, args.data.equipment_catalog,
                                    args.data.assumptions, rounding)
                 ELSE [page |-> "Analyses", outcome |-> "info"]
    /\ UNCHANGED <<op, args, pc, session_state>>

\* Export page: without a session it only warns
ExportPage ==
    /\ pc = "run" /\ op = "app"
    /\ \E rounding \in ProductRoundings :
          ret' = IF session_state.set
                 THEN export_page(session_state, args.data.equipment_catalog,
                                  args.data.assumptions, rounding)
                 ELSE [page |-> "Export", outcome |-> "warning"]
    /\ UNCHANGED <<op, args, pc, session_state>>

Next ==
    \/ CallTariffCost
    \/ CallSystemCost
    \/ CallBatterySpecs
    \/ CallBatteryCost
    \/ CallQuickRoi
    \/ CallRecommendation
    \/ CallValidation
    \/ CallValidateRecommendation
    \/ CallApplianceLoad
    \/ HomeAnalyze
    \/ AnalysesPage
    \/ ExportPage

Spec == Init /\ [][Next]_vars

(***************************************************************************)
(* Claims.                                                                 *)
(***************************************************************************)
TariffDone == op = "calculate_tariff_cost" /\ pc = "done"

HasTierTable == args.tariff_data.present /\ args.tariff_data.tiers # <<>>

\* the consumption lies inside the range the table covers
InTableRange ==
    LET tiers == args.tariff_data.tiers
    IN  /\ args.monthly2 >= 2 * tiers[1].min_kwh
        /\ args.monthly2 <= 2 * tiers[Len(tiers)].max_kwh

BilledTiers == {i \in 1..Len(ret.billed) : ret.billed[i] > 0}

HighestBilled == CHOOSE i \in BilledTiers : \A j \in BilledTiers : j <= i

\* C1: for every consumption >= 0 and every ordered, contiguous tier table the
\* per-tier billed quantities sum to the total consumption, and the category
\* is the name of the highest tier in which a quantity was billed.  Stated
\* here for the consumptions inside the table's range only, the case most
\* favourable to the claim.
C1_BilledSumIsConsumption ==
    (TariffDone /\ HasTierTable /\ InTableRange) =>
        /\ SumSeq(ret.billed) = args.monthly2
        /\ BilledTiers # {} =>
              ret.tariff_category = args.tariff_data.tiers[HighestBilled].name

SystemCostDone == op = "calculate_system_cost" /\ pc = "done"

HasBreakdown == SystemCostDone /\ ~ret.breakdown.empty

SumOfSeven(b) ==
    MAdd(MAdd(MAdd(MAdd(MAdd(MAdd(b.panels.base_cost, b.inverter.base_cost),
                             b.vat.amount), b.mounting.cost), b.safety.cost),
              b.installation.cost), b.bos.cost)

\* C2: for every positive system size for which a breakdown is returned, the
\* returned total and breakdown['total'] equal panels.base_cost +
\* inverter.base_cost + vat.amount + mounting.cost + safety.cost +
\* installation.cost + bos.cost, and nothing else.
C2_TotalIsSumOfSeven ==
    (HasBreakdown /\ args.system_size_kw.n > 0) =>
        /\ ret.total_cost = SumOfSeven(ret.breakdown)
        /\ ret.breakdown.total = SumOfSeven(ret.breakdown)

\* a positive size priced with the fallback inverter, all seven parts non-zero
C2_Witness ==
    /\ HasBreakdown /\ args.system_size_kw.n > 0
    /\ ret.breakdown.inverter.base_cost.b > 0
    /\ ret.breakdown.vat.amount.a > 0 /\ ret.breakdown.bos.cost.a > 0
    /\ ret.total_cost.a > ret.breakdown.panels.base_cost.a

\* C3: panel_count is max(1, ceil(requestedWatts / 450)), the least count >= 1
\* whose wattage covers the request, so panel_count * 450 >= requestedWatts
\* and actual_system_kw = panel_count * 450 / 1000 >= the requested kW.
C3_PanelsNeverUnderestimate ==
    HasBreakdown =>
        LET kw == args.system_size_kw
            count == ret.breakdown.panels.count
        IN  /\ count >= 1
            /\ count * 450 * kw.d >= kw.n * 1000
            /\ count > 1 => (count - 1) * 450 * kw.d < kw.n * 1000
            /\ ret.breakdown.actual_system_kw = Rat(count * 450, 1000)
            /\ RLe(kw, ret.breakdown.actual_system_kw)

\* a request that is not a whole number of panels and is rounded up
C3_Witness ==
    /\ HasBreakdown
    /\ ret.breakdown.panels.count > 1
    /\ RLt(args.system_size_kw, ret.breakdown.actual_system_kw)

QuickRoiDone == op = "calculate_quick_roi" /\ pc = "done"

\* C4: in calculate_quick_roi annual_savings = min(annual_generation,
\* annual_consumption) x rate, so for every generation and consumption (rate
\* >= 0) annual_savings <= annual_consumption x rate.
C4_SavingsCappedByConsumption ==
    (QuickRoiDone /\ args.rate.n >= 0) =>
        /\ ret.annual_savings =
              RMul(RMin(ret.annual_generation, ret.annual_kwh), args.rate)
        /\ RLe(ret.annual_savings, RMul(ret.annual_kwh, args.rate))

\* the panels generate more than is consumed and the savings stop at the
\* consumption
C4_Witness ==
    /\ QuickRoiDone /\ args.rate.n > 0
    /\ RLt(ret.annual_kwh, ret.annual_generation)
    /\ ret.annual_savings = RMul(ret.annual_kwh, args.rate)

AnalysesShown == op = "app" /\ ret # NoResult /\ ret.page = "Analyses" /\ ret.outcome = "shown"

\* C5: whenever annual_savings <= 0, payback_years is +infinity, never a
\* finite or negative number, and the infinite payback is not replaced by a
\* finite number where the value is handed on for display (the Payback card
\* and the financial timeline of the Analyses page).
C5_InfinitePaybackKept ==
    /\ (QuickRoiDone /\ ret.annual_savings.n <= 0) => ret.payback_years = Infinity
    /\ (AnalysesShown /\ ret.estimate.annual_savings.n <= 0) =>
          /\ ret.estimate.payback_years = Infinity
          /\ ret.payback_display.years = Infinity
          /\ ret.timeline.payback_point = Infinity

BatteryDone == op = "calculate_battery_specs" /\ pc = "done"

Chemistries == {"Lithium", "Lead-Acid", "Gel"}

LeadOrGel == args.battery_type \in {"Lead-Acid", "Gel"}

\* backup_energy / DoD, the capacity asked for, in 1/100 kWh
RequestedCapacity ==
    Rat(args.backup_energy_kwh.n * 100, args.backup_energy_kwh.d * ret.depth_of_discharge)

\* C6: for every backup energy >= 0, every chemistry and every system_kw the
\* returned total_capacity_kwh is >= backup_energy / DoD: rounding to
\* standard sizes and whole strings never rounds the bank down.
C6_BankNeverRoundedDown ==
    (BatteryDone /\ args.battery_type \in Chemistries /\ args.backup_energy_kwh.n >= 0) =>
        RLe(RequestedCapacity, ret.total_capacity_kwh)

\* a Lead-Acid/Gel bank of several strings of 200 Ah that exceeds the request
C6_Witness ==
    /\ BatteryDone /\ LeadOrGel
    /\ ret.parallel_strings > 1 /\ ret.recommended_ah = 200
    /\ RLt(RequestedCapacity, ret.total_capacity_kwh)

\* C7: in every branch total_batteries = batteries_in_series x
\* parallel_strings with parallel_strings >= 1, and the label is
\* "{parallel}P{series}S" when parallel_strings > 1, "{series}S" otherwise.
C7_UnitsAndLabel ==
    BatteryDone =>
        /\ ret.parallel_strings >= 1
        /\ ret.total_batteries = ret.batteries_in_series * ret.parallel_strings
        /\ ret.parallel_strings > 1 =>
              ret.configuration = ToString(ret.parallel_strings) \o "P"
                                  \o ToString(ret.batteries_in_series) \o "S"
        /\ ret.parallel_strings = 1 =>
              ret.configuration = ToString(ret.batteries_in_series) \o "S"

\* a Lead-Acid/Gel bank of two strings of four batteries in series
C7_Witness ==
    /\ BatteryDone /\ LeadOrGel
    /\ ret.parallel_strings = 2 /\ ret.batteries_in_series = 4
    /\ ret.total_batteries = 8 /\ ret.configuration = "2P4S"

\* C8: usable_capacity_kwh = total_capacity_kwh x depth_of_discharge, the
\* depth of discharge being the caller's override when given and otherwise
\* Lithium 0.90, Gel 0.60, Lead-Acid 0.50.
C8_UsableIsTotalTimesDod ==
    (BatteryDone /\ args.battery_type \in Chemistries) =>
        /\ ret.depth_of_discharge =
              IF args.depth_of_discharge.given THEN args.depth_of_discharge.pct
              ELSE CASE args.battery_type = "Lithium"   -> 90
                     [] args.battery_type = "Gel"       -> 60
                     [] args.battery_type = "Lead-Acid" -> 50
        /\ ret.usable_capacity_kwh.n * ret.total_capacity_kwh.d * 100
              = ret.total_capacity_kwh.n * ret.depth_of_discharge * ret.usable_capacity_kwh.d

\* a Gel bank sized with the default depth of discharge
C8_Witness ==
    /\ BatteryDone /\ args.battery_type = "Gel" /\ ~args.depth_of_discharge.given
    /\ ret.total_capacity_kwh.n > 0
    /\ RLt(ret.usable_capacity_kwh, ret.total_capacity_kwh)

\* C9: the system voltage is a step function of system_kw: below 1.5 kW or
\* without system_kw 12 V with 1 in series, from 1.5 kW up to 5 kW 24 V with
\* 2 in series, 5 kW and above 48 V with 4 in series; nothing else.
C9_VoltageSteps ==
    BatteryDone =>
        LET s == args.system_kw
            small == ~s.given \/ s.kw.n * 10 < 15 * s.kw.d
            large == s.given /\ s.kw.n >= 5 * s.kw.d
        IN  /\ small => ret.system_voltage = 12 /\ ret.batteries_in_series = 1
            /\ (~small /\ ~large) => ret.system_voltage = 24 /\ ret.batteries_in_series = 2
            /\ large => ret.system_voltage = 48 /\ ret.batteries_in_series = 4

\* a system of exactly 1.5 kW, the lower edge of the 24 V step
C9_Witness ==
    /\ BatteryDone /\ args.system_kw.given /\ args.system_kw.kw = Rat(15, 10)
    /\ ret.system_voltage = 24

\* C10: for Lead-Acid and Gel, whatever the capacity and the system voltage,
\* battery_voltage_unit = 12 and 12 x batteries_in_series = system_voltage.
C10_LeadUnitsAre12V ==
    (BatteryDone /\ LeadOrGel) =>
        /\ ret.battery_voltage_unit = 12
        /\ 12 * ret.batteries_in_series = ret.system_voltage

\* a Gel bank on a 48 V system
C10_Witness ==
    /\ BatteryDone /\ args.battery_type = "Gel"
    /\ ret.system_voltage = 48 /\ ret.parallel_strings > 1

PackSizesKwh == {256, 512, 768, 1024, 1536, 2048}

LithiumSizesAh == {50, 100, 150, 200, 300}

LeadSizesAh == {50, 80, 100, 120, 150, 200}

\* the smallest member of S that is >= need, the largest member when none is
SmallestAtLeast(S, need) ==
    LET fit == {s \in S : RLe(need, RInt(s))}
    IN  IF fit = {} THEN CHOOSE s \in S : \A t \in S : t <= s
        ELSE CHOOSE s \in fit : \A t \in fit : s <= t

\* the required capacity at 12 V, in Ah
RequestedAh == Rat(RequestedCapacity.n * 10, RequestedCapacity.d * 12)

\* C11: the unit size is the smallest member of the path's set that is >= the
\* required unit capacity, the largest member when none qualifies: Lithium of
\* 2.5 kWh and more takes kWh packs against total_capacity / series_count
\* (is_kwh_based), smaller Lithium takes {50,100,150,200,300} Ah at 12 V,
\* Lead-Acid/Gel take {50,80,100,120,150,200} Ah at 12 V.
C11_UnitSizeSmallestFit ==
    (BatteryDone /\ args.battery_type \in Chemistries) =>
        IF args.battery_type = "Lithium" /\ RLe(RInt(250), RequestedCapacity)
        THEN /\ ret.is_kwh_based
             /\ ret.recommended_kwh =
                   SmallestAtLeast(PackSizesKwh,
                                   Rat(RequestedCapacity.n,
                                       RequestedCapacity.d * ret.batteries_in_series))
        ELSE IF args.battery_type = "Lithium"
        THEN /\ ~ret.is_kwh_based /\ ret.battery_voltage_unit = 12
             /\ ret.recommended_ah = SmallestAtLeast(LithiumSizesAh, RequestedAh)
        ELSE /\ ~ret.is_kwh_based /\ ret.battery_voltage_unit = 12
             /\ ret.recommended_ah = SmallestAtLeast(LeadSizesAh, RequestedAh)

\* a Lithium bank of 3.04 kWh backup (3.38 kWh at 90 %) sized in 5.12 kWh
\* packs, a larger pack size being skipped
C11_Witness ==
    /\ BatteryDone /\ args.battery_type = "Lithium" /\ ~args.depth_of_discharge.given
    /\ args.backup_energy_kwh = RInt(304)
    /\ ret.is_kwh_based /\ ret.recommended_kwh = 512

TopTier == args.tariff_data.tiers[Len(args.tariff_data.tiers)]

\* C12: when the tier table or the rates are absent (tariff data missing,
\* empty, or present without a domestic tier list) calculate_tariff_cost
\* returns a zeroed result: cost 0, effective rate 0, a placeholder category.
C12_NoTableZeroedResult ==
    (TariffDone /\ ~HasTierTable) =>
        /\ ret.total_monthly_cost = 0
        /\ ret.effective_rate = RInt(0)
        /\ ret.tariff_category \in {"N/A", "Unknown"}

\* C13: a consumption below the lowest tier's minimum is billed fully in the
\* lowest tier, and the category is the lowest tier's name.
C13_BelowLowestBilledInLowest ==
    (TariffDone /\ HasTierTable /\ args.monthly2 > 0
                /\ args.monthly2 < 2 * args.tariff_data.tiers[1].min_kwh) =>
        /\ ret.billed[1] = args.monthly2
        /\ ret.remaining = 0
        /\ ret.tariff_category = args.tariff_data.tiers[1].name

\* C14: a consumption above the top tier's upper bound has all of its
\* remainder billed in the top tier, whatever that tier is named: nothing is
\* left unbilled.
C14_AboveTopAllBilled ==
    (TariffDone /\ HasTierTable /\ args.monthly2 > 2 * TopTier.max_kwh) =>
        /\ ret.remaining = 0
        /\ SumSeq(ret.billed) = args.monthly2
        /\ ret.tariff_category = TopTier.name

\* C15: with a non-empty tier table a consumption of 0 returns cost 0,
\* effective rate 0 and category "Unknown", no tier being touched.
C15_ZeroConsumption ==
    (TariffDone /\ HasTierTable /\ args.monthly2 = 0) =>
        /\ ret.total_monthly_cost = 0
        /\ ret.effective_rate = RInt(0)
        /\ ret.tariff_category = "Unknown"
        /\ BilledTiers = {}

C15_Witness ==
    /\ TariffDone /\ args.tariff_data = TariffData(EpraTiers) /\ args.monthly2 = 0
    /\ ret.tariff_category = "Unknown" /\ ret.billed = <<0, 0, 0>>

ExportShown == op = "app" /\ ret # NoResult /\ ret.page = "Export" /\ ret.outcome = "shown"

\* C16: for one session's inputs the Export report shows the same upfront
\* cost (solar + battery), annual savings, payback and NPV as the Analyses
\* page, payback and NPV being computed from the displayed upfront_cost and
\* annual_savings.  Stated over the step from the Analyses page to the Export
\* page of the same session.
C16_ExportEqualsAnalyses ==
    [][(AnalysesShown /\ ExportShown' /\ session_state' = session_state) =>
            /\ ret'.estimate.upfront_cost = ret.estimate.upfront_cost
            /\ ret'.estimate.annual_savings = ret.estimate.annual_savings
            /\ ret'.estimate.payback_years = ret.estimate.payback_years
            /\ ret'.estimate.npv_25yr = ret.estimate.npv_25yr
            /\ ret'.estimate.payback_years =
                  payback(ret'.estimate.upfront_cost, ret'.estimate.annual_savings)]_vars

BatteryCostDone == op = "calculate_battery_cost" /\ pc = "done"

\* the bank was sized in the Lithium branches (DoD 0.9, Lithium unit sizes)
SizedAsLithium ==
    \/ ret.battery_specs.is_kwh_based
    \/ ret.battery_specs.depth_of_discharge = 90

\* C18: calculate_battery_cost prices the bank at total_capacity_kwh x one
\* fixed rate per chemistry: 50,000 KSh/kWh for every battery type that
\* calculate_battery_specs sizes as Lithium, 20,000 KSh/kWh for Lead-Acid and
\* Gel, so that pricing and sizing use the same chemistry.
C18_PricedAsSized ==
    BatteryCostDone =>
        /\ ret.battery_cost.cost_per_kwh = IF SizedAsLithium THEN 50000 ELSE 20000
        /\ ret.battery_cost.initial_cost_ksh =
              (ret.battery_specs.total_capacity_kwh.n * ret.battery_cost.cost_per_kwh)
                  \div ret.battery_specs.total_capacity_kwh.d

RecommendationDone == op = "generate_solar_recommendation" /\ pc = "done"

\* the remote call was reached
Requested == args.api_key /\ ~args.configure_raises

IsFailureValue ==
    ret.recommendation = None /\ ret.error # None

ValidationDone == op = "validate_recommendation" /\ pc = "done"

SubScores == {ret.validations[i].confidence : i \in 1..4}

SubScoreSum ==
    ret.validations[1].confidence + ret.validations[2].confidence
        + ret.validations[3].confidence + ret.validations[4].confidence

\* C20: the overall confidence is the arithmetic mean of the sub-scores of the
\* four checks, every sub-score and the mean lying in [0, 1], and the level
\* is High for a mean >= 0.85, Good for >= 0.70, Moderate for >= 0.50 and Low
\* below.
C20_MeanAndBuckets ==
    ValidationDone =>
        /\ Len(ret.validations) = 4
        /\ \A s \in SubScores : 0 <= s /\ s <= 100
        /\ ret.overall_confidence = Rat(SubScoreSum, 4)
        /\ RLe(RInt(0), ret.overall_confidence) /\ RLe(ret.overall_confidence, RInt(100))
        /\ ret.confidence_level =
              IF SubScoreSum >= 4 * 85 THEN "High"
              ELSE IF SubScoreSum >= 4 * 70 THEN "Good"
              ELSE IF SubScoreSum >= 4 * 50 THEN "Moderate"
              ELSE "Low"

\* four sub-scores 1.0, 0.8, 0.6, 1.0 whose mean is 0.85 exactly: High
C20_Witness ==
    /\ ValidationDone
    /\ ret.validations[1].confidence = 100 /\ ret.validations[2].confidence = 80
    /\ ret.validations[3].confidence = 60 /\ ret.validations[4].confidence = 100
    /\ ret.overall_confidence = RInt(85) /\ ret.confidence_level = "High"

\* the required capacity and the capacity of one string of the chosen unit,
\* in the unit of the branch taken (1/100 kWh, or Ah at 12 V)
StringNeed == IF ret.is_kwh_based THEN RequestedCapacity ELSE RequestedAh

StringCapacity ==
    IF ret.is_kwh_based THEN ret.recommended_kwh * ret.batteries_in_series
    ELSE ret.recommended_ah

\* C21: in every branch parallel_strings is the ceiling of the required
\* capacity over the string capacity, the least p >= 1 such that p strings of
\* the chosen unit cover the requirement; an exact multiple gets no extra
\* string.
C21_ParallelIsCeiling ==
    (BatteryDone /\ args.battery_type \in Chemistries) =>
        ret.parallel_strings =
            Max(1, Ceil(StringNeed.n, StringNeed.d * StringCapacity))

\* the energy of one chosen unit, in 1/100 kWh: the pack's kWh, or rated Ah x
\* unit voltage / 1000
UnitEnergy ==
    IF ret.is_kwh_based THEN RInt(ret.recommended_kwh)
    ELSE Rat(ret.recommended_ah * ret.battery_voltage_unit, 10)

\* C22: total_capacity_kwh is the chosen unit's energy x total_batteries in
\* every branch, Ah-rated banks with more than one unit in series (24 V and
\* 48 V systems) included.
C22_TotalIsUnitTimesCount ==
    (BatteryDone /\ args.battery_type \in Chemistries) =>
        ret.total_capacity_kwh = RMul(UnitEnergy, RInt(ret.total_batteries))

\* the base charge of the quantities billed, in 1/200 KSh
BaseCost ==
    SumSeq([i \in 1..Len(ret.billed) |-> ret.billed[i] * args.tariff_data.tiers[i].rate])

\* the quantity (half kWh) of a consumption that falls in the band of tier i
\* of a contiguous table: from the tier below's upper bound to its own
BandQuantity(tiers, i, monthly2) ==
    Max(0, Min(monthly2, 2 * tiers[i].max_kwh)
           - (IF i = 1 THEN 0 ELSE 2 * tiers[i - 1].max_kwh))

BandSum ==
    SumSeq([i \in 1..Len(args.tariff_data.tiers) |->
              BandQuantity(args.tariff_data.tiers, i, args.monthly2)
                  * args.tariff_data.tiers[i].rate])

\* C23: the base cost is the sum over the tiers of (quantity of the
\* consumption falling in the tier's band x the tier's rate), a consumption
\* wholly in the first tier giving consumption x R1; total = (base +
\* consumption x pass-through) x (1 + VAT) and effective rate = total /
\* consumption.  Stated for the consumptions inside the table's range.
C23_BaseIsBandSum ==
    (TariffDone /\ HasTierTable /\ InTableRange) =>
        /\ Len(ret.billed) = Len(args.tariff_data.tiers) => BaseCost = BandSum
        /\ args.monthly2 <= 2 * args.tariff_data.tiers[1].max_kwh =>
              /\ ret.billed # <<>>
              /\ ret.billed[1] = args.monthly2
        /\ ret.total_monthly_cost =
              (SumSeq([i \in 1..Len(ret.billed) |->
                         ret.billed[i] * args.tariff_data.tiers[i].rate])
                  + args.monthly2 * args.tariff_data.pass_through)
                 * (100 + args.tariff_data.vat_pct)
        /\ args.monthly2 > 0 =>
              ret.effective_rate = Rat(ret.total_monthly_cost, 10000 * args.monthly2)

StandardSteps == {15, 30, 50, 80, 100}

\* the catalog inverters (by index) that cover the requested size
Qualifying ==
    {i \in 1..Len(args.equipment_catalog.inverters) :
        RLe(args.system_size_kw, Rat(args.equipment_catalog.inverters[i].capacity_kw10, 10))}

\* C24: the inverter is the smallest catalog inverter whose capacity >= the
\* requested kW; when none qualifies the price is requested kW x 25,000 and
\* the reported capacity is the next standard step among 1.5, 3, 5, 8, 10 kW;
\* in both cases the reported capacity is >= the requested kW.  The step is
\* stated for requests up to 10 kW, the largest step.
C24_InverterChoice ==
    (SystemCostDone /\ HasBreakdown /\ args.system_size_kw.n > 0) =>
        /\ RLe(args.system_size_kw, Rat(ret.breakdown.inverter.capacity_kw10, 10))
        /\ IF Qualifying # {}
           THEN \E i \in Qualifying :
                  /\ \A j \in Qualifying :
                        args.equipment_catalog.inverters[i].capacity_kw10
                            <= args.equipment_catalog.inverters[j].capacity_kw10
                  /\ ret.breakdown.inverter.capacity_kw10 =
                        args.equipment_catalog.inverters[i].capacity_kw10
                  /\ ret.breakdown.inverter.base_cost =
                        Money(args.equipment_catalog.inverters[i].price_ksh * 100, 0)
           ELSE /\ ret.breakdown.inverter.base_cost = Money(0, 25000 * 100)
                /\ RLe(args.system_size_kw, RInt(10)) =>
                      /\ ret.breakdown.inverter.capacity_kw10 \in StandardSteps
                      /\ \A s \in StandardSteps :
                            RLe(args.system_size_kw, Rat(s, 10)) =>
                                ret.breakdown.inverter.capacity_kw10 <= s

\* 1 / (1 + discount)^t in millionths, rounded down at every year
RECURSIVE DiscountFactor(_, _)
DiscountFactor(discount_pct, t) ==
    IF t = 0 THEN 1000000
    ELSE (DiscountFactor(discount_pct, t - 1) * 100) \div (100 + discount_pct)

\* the sum over t = 1..years of the discount factors, in millionths
RECURSIVE DiscountSum(_, _)
DiscountSum(discount_pct, years) ==
    IF years = 0 THEN 0
    ELSE DiscountSum(discount_pct, years - 1) + DiscountFactor(discount_pct, years)

\* C25: upfront_cost = solar_cost + battery_cost and npv_25yr = -upfront_cost
\* + the sum over t = 1..25 of annual_savings / 1.08^t, the same
\* annual_savings in every year; the discounted sum has the sign of
\* annual_savings, so for annual_savings <= 0 the NPV is <= -upfront_cost.
C25_UpfrontAndNpv ==
    QuickRoiDone =>
        /\ ret.upfront_cost = [a |-> ret.solar_cost.a + args.battery_cost,
                               b |-> ret.solar_cost.b]
        /\ ret.battery_cost = args.battery_cost
        /\ ret.npv_25yr = [upfront_cost |-> ret.upfront_cost,
                           annual_savings |-> ret.annual_savings,
                           discount_pct |-> 8, years |-> 25]
        /\ DiscountSum(ret.npv_25yr.discount_pct, ret.npv_25yr.years) > 0

\* a battery in the upfront cost and no savings: the NPV is the upfront cost
\* lost
C25_Witness ==
    /\ QuickRoiDone /\ args.battery_cost > 0 /\ ~ret.cost_breakdown.empty
    /\ ret.annual_savings = RInt(0)
    /\ ret.upfront_cost.a = ret.solar_cost.a + 24000000
    /\ ret.npv_25yr.upfront_cost = ret.upfront_cost
    /\ ret.npv_25yr.annual_savings = RInt(0)

ApplianceLoadDone == op = "calculate_appliance_load" /\ pc = "done"

\* a count that contributes: zero and negative counts count for nothing
Contributing(count) == IF count > 0 THEN count ELSE 0

\* C26: the load is 30.44 x the sum over the appliances with count > 0 and a
\* known spec of power x hours x count / 1000; an unknown name or a count
\* <= 0 contributes nothing, and the water-pump hours replace only the Water
\* Pump's daily hours.
C26_ApplianceLoad ==
    ApplianceLoadDone =>
        ret = Rat(3044 * (150 * 240 * Contributing(args.appliances["Fridge"])
                          + 500 * args.water_pump_hours
                                * Contributing(args.appliances["Water Pump"])
                          + 1000 * 3 * Contributing(args.appliances["Iron"])),
                  1000000)

\* a fridge, two pumps running 5 h, a negative count of irons and an unknown
\* appliance: (150 x 24 + 500 x 5 x 2) / 1000 x 30.44 = 261.784 kWh
C26_Witness ==
    /\ ApplianceLoadDone /\ args.water_pump_hours = 50
    /\ args.appliances["Fridge"] = 1 /\ args.appliances["Water Pump"] = 2
    /\ args.appliances["Iron"] = -1 /\ args.appliances["Sauna"] = 2
    /\ ret = Rat(261784, 1000)

RecommendationValidated ==
    op = "accuracy_validator.validate_recommendation" /\ pc = "done"

\* the recommendation follows the schema: a system size > 0 and the upfront
\* cost in financial_analysis.upfront_cost_ksh
Structured ==
    /\ args.recommendation # None
    /\ "system_sizing" \in DOMAIN args.recommendation
    /\ args.recommendation.system_sizing.required_system_size_kw.n > 0
    /\ "upfront_cost_ksh" \in DOMAIN args.recommendation.financial_analysis

\* C27: the cost per watt is the recommendation's financial_analysis upfront
\* cost (upfront_cost_ksh) divided by required_system_size_kw x 1000, and the
\* cost check is valid exactly when it lies in [55, 150]; the recommendation
\* is left as it was.
C27_CostPerWattFromUpfront ==
    (RecommendationValidated /\ Structured) =>
        /\ ret.recommendation = args.recommendation
        /\ Len(ret.results.validations) = 4
        /\ ret.results.validations[3].is_valid =
              LET watts == args.recommendation.system_sizing.required_system_size_kw.n
                               * 1000
                  cost == args.recommendation.financial_analysis.upfront_cost_ksh
              IN  55 * watts <= cost /\ cost <= 150 * watts

\* C28: on the Home page, for each of the three system types and a monthly
\* consumption of at least 10 kWh, pressing Analyze stores the inputs in the
\* session state and sets step to 2: battery_voltage, battery_config,
\* battery_cost, battery_num, battery_ah and battery_type are all assigned on
\* the branch taken, so the handler never stops on an unassigned name.
HomeAnalyzed == op = "app" /\ ret # NoResult /\ ret.page = "Home"

BatteryKeys ==
    {"battery_voltage", "battery_config", "battery_cost", "battery_num",
     "battery_ah", "battery_type"}

C28_AnalyzeStoresAndAdvances ==
    HomeAnalyzed =>
        /\ ret.outcome # "NameError"
        /\ session_state.set
        /\ session_state.step = 2
        /\ BatteryKeys \subseteq DOMAIN session_state

\* C29: in every reachable session state that holds 'monthly_consumption',
\* 'ghi_value', 'effective_rate' and 'tariff_category' are held too, also
\* after an Analyze click whose tariff calculation failed.
TariffKeys == {"ghi_value", "effective_rate", "tariff_category"}

C29_SessionKeysTogether ==
    session_state.set => TariffKeys \subseteq DOMAIN session_state

\* C30: in calculate_quick_roi with a positive irradiance and a non-negative
\* consumption, annual_generation is never below the annual consumption, so
\* min() always takes the consumption and annual_savings is
\* annual_consumption x rate.
C30_GenerationCoversConsumption ==
    (QuickRoiDone /\ args.ghi > 0 /\ args.monthly_kwh.n >= 0) =>
        /\ RLe(ret.annual_kwh, ret.annual_generation)
        /\ ret.annual_generation_ulps >= 0 \/ ret.annual_generation # ret.annual_kwh
        /\ ret.annual_savings = RMul(ret.annual_kwh, args.rate)
        /\ ret.annual_savings_ulps = 0

=============================================================================
